---------------------------- MODULE Spec2Model ----------------------------
(***************************************************************************)
(* Model of the crater-identification geometry engine:                     *)
(*   - craterdetection/matching/utils.py: enhanced_pattern_shifting,       *)
(*     np_swap_columns, cw_or_ccw, is_colinear, is_clockwise,              *)
(*     all_clockwise;                                                      *)
(*   - craterdetection/matching/projective_invariants.py:                  *)
(*     PermutationInvariant, CoplanarInvariants.                           *)
(* Arithmetic is exact (integers and rationals); numpy arrays are          *)
(* sequences, 2-D arrays are sequences of rows.                             *)
(***************************************************************************)
EXTENDS Integers, Sequences, FiniteSets, TLC

VARIABLES
    \* enhanced_pattern_shifting(n): the generator's frame
    n, dj, dk, ii, i, pc, out,
    \* from_detection_conics, lines 145-164: the orientation stage's frame
    x_pix, y_pix, crater_triads, x_triads, y_triads, clockwise,
    crater_triads_cw, line, opc, stdout,
    \* the stage's application count, its first argument and first result
    round, arg, first,
    \* CoplanarInvariants: the detections' conics, the constructor's
    \* arguments and locals, the object's attributes, get_pattern's result
    A_craters, in_triads, normalize_det, A_i, A_j, A_k, overlapped_craters,
    self_crater_triads, I_ij, I_ji, I_ik, I_ki, I_jk, I_kj, I_ijk,
    permutation_invariant, pattern, ipc,
    \* PermutationInvariant on scalars: the arguments x1, y1, z1, x2, y2, z2 of
    \* F and G_tilde,
    \* the values returned by F and by G_tilde
    ax1, ay1, az1, ax2, ay2, az2, F_val, G_val, fpc,
    \* Camera.__init__: the arguments r and T, the locals, the attributes
    \* self.r and self.T, the exception raised, the object returned
    r_M, T_arg, Z_ax_cam, X_ax_cam, Y_ax_cam, self_r, self_T, raised, camera,
    cpc,
    \* match_generator: the triples taken from enhanced_pattern_shifting so
    \* far, the pairs yielded, the exception that ended it
    taken, yielded, m_raised, mpc

epsVars == <<n, dj, dk, ii, i, pc, out>>

orientVars == <<x_pix, y_pix, crater_triads, x_triads, y_triads, clockwise,
                crater_triads_cw, line, opc, stdout, round, arg, first>>

invVars == <<A_craters, in_triads, normalize_det, A_i, A_j, A_k,
             overlapped_craters, self_crater_triads,
             I_ij, I_ji, I_ik, I_ki, I_jk, I_kj, I_ijk,
             permutation_invariant, pattern, ipc>>

piVars == <<ax1, ay1, az1, ax2, ay2, az2, F_val, G_val, fpc>>

camVars == <<r_M, T_arg, Z_ax_cam, X_ax_cam, Y_ax_cam, self_r, self_T,
             raised, camera, cpc>>

matchVars == <<taken, yielded, m_raised, mpc>>

vars == <<epsVars, orientVars, invVars, piVars, camVars, matchVars>>

\* what a component's steps leave alone
notEPS == <<orientVars, invVars, piVars, camVars, matchVars>>
notOrient == <<epsVars, invVars, piVars, camVars, matchVars>>
notInv == <<epsVars, orientVars, piVars, camVars, matchVars>>
notPI == <<epsVars, orientVars, invVars, camVars, matchVars>>
notCam == <<epsVars, orientVars, invVars, piVars, matchVars>>

(***************************************************************************)
(* Bounds of the model.                                                    *)
(***************************************************************************)
MinN == 2
MaxN == 9
\* detection centres lie on the pixel grid 0..MaxX by 0..MaxY
MaxX == 1
MaxY == 1
\* rows of the crater_triads argument
MaxTriads == 2
\* rows of the constructor's crater_triads argument
MaxRows == 2
\* the scalar arguments of PermutationInvariant lie within MaxV units in
\* the last place of 1.0
MaxV == 1
\* bits of the significand of a float (53 in numpy's float64)
MantissaBits == 3
\* the coordinates of the camera position range over -MaxR .. MaxR
MaxR == 2

\* the argument n ranges over -MinN .. MaxN
NValues == (0 - MinN)..MaxN

(***************************************************************************)
(* utils.py, enhanced_pattern_shifting: the four nested range() loops.     *)
(* A loop header is one step: it draws the next value of its range or      *)
(* leaves the loop.  NONE marks a loop variable not bound yet.             *)
(***************************************************************************)
NONE == 0 - 1

\* range(1, n-2)
DjStart == 1
DjStop(nn) == nn - 2
\* range(1, n-dj-1)
DkStart == 1
DkStop(nn, d) == nn - d - 1
\* range(0, 3)
IiStop == 3
\* range(ii, n-dj-dk, 3)
IStop(nn, d, e) == nn - d - e
IStepOne == 1
IStep == 3

\* the value a for-loop over range(start, stop, step) draws after cur
RangeNext(cur, start, step) == IF cur = NONE THEN start ELSE cur + step

\* j = i + dj ; k = j + dk ; yield i, j, k
YieldTripleSwapped(a, d, e) == <<a, a + e, a + e + d>>
YieldTriple(a, d, e) == <<a, a + d, (a + d) + e>>

\* the other components are not running
OrientIdle ==
    /\ x_pix = << >> /\ y_pix = << >> /\ crater_triads = << >>
    /\ x_triads = << >> /\ y_triads = << >> /\ clockwise = << >>
    /\ crater_triads_cw = << >> /\ line = << >>
    /\ opc = "idle" /\ stdout = << >>
    /\ round = 0 /\ arg = << >> /\ first = << >>

EPSIdle ==
    /\ n = 0 /\ dj = NONE /\ dk = NONE /\ ii = NONE /\ i = NONE
    /\ pc = "idle" /\ out = << >>

InvIdle ==
    /\ A_craters = << >> /\ in_triads = << >> /\ normalize_det = FALSE
    /\ A_i = << >> /\ A_j = << >> /\ A_k = << >>
    /\ overlapped_craters = << >> /\ self_crater_triads = << >>
    /\ I_ij = << >> /\ I_ji = << >> /\ I_ik = << >> /\ I_ki = << >>
    /\ I_jk = << >> /\ I_kj = << >> /\ I_ijk = << >>
    /\ permutation_invariant = FALSE /\ pattern = << >> /\ ipc = "idle"

PIIdle ==
    /\ ax1 = 0 /\ ay1 = 0 /\ az1 = 0 /\ ax2 = 0 /\ ay2 = 0 /\ az2 = 0
    /\ F_val = << >> /\ G_val = << >> /\ fpc = "idle"

MatchIdle ==
    /\ taken = 0 /\ yielded = << >> /\ m_raised = "" /\ mpc = "idle"

CamIdle ==
    /\ r_M = << >> /\ T_arg = << >>
    /\ Z_ax_cam = << >> /\ X_ax_cam = << >> /\ Y_ax_cam = << >>
    /\ self_r = << >> /\ self_T = << >>
    /\ raised = "" /\ camera = "" /\ cpc = "idle"

InitEPS ==
    /\ n \in NValues
    /\ dj = NONE /\ dk = NONE /\ ii = NONE /\ i = NONE
    /\ pc = "start"
    /\ out = << >>
    /\ OrientIdle /\ InvIdle /\ PIIdle /\ CamIdle /\ MatchIdle

\* the upstream variant of the generator refuses n < 3 with a ValueError
StartRaising ==
    /\ pc = "start"
    /\ pc' = IF n < 3 THEN "raised" ELSE "dj"
    /\ UNCHANGED <<n, dj, dk, ii, i, out, notEPS>>

\* the generator is entered: no argument check precedes the loops
Start ==
    /\ pc = "start"
    /\ pc' = "dj"
    /\ UNCHANGED <<n, dj, dk, ii, i, out, notEPS>>

ForDj ==
    /\ pc = "dj"
    /\ LET nx == RangeNext(dj, DjStart, 1) IN
         IF nx < DjStop(n)
           THEN /\ dj' = nx /\ dk' = NONE /\ pc' = "dk"
                /\ UNCHANGED <<n, ii, i, out, notEPS>>
           ELSE /\ pc' = "done"
                /\ UNCHANGED <<n, dj, dk, ii, i, out, notEPS>>

ForDk ==
    /\ pc = "dk"
    /\ LET nx == RangeNext(dk, DkStart, 1) IN
         IF nx < DkStop(n, dj)
           THEN /\ dk' = nx /\ ii' = NONE /\ pc' = "ii"
                /\ UNCHANGED <<n, dj, i, out, notEPS>>
           ELSE /\ pc' = "dj"
                /\ UNCHANGED <<n, dj, dk, ii, i, out, notEPS>>

ForIi ==
    /\ pc = "ii"
    /\ LET nx == RangeNext(ii, 0, 1) IN
         IF nx < IiStop
           THEN /\ ii' = nx /\ i' = NONE /\ pc' = "i"
                /\ UNCHANGED <<n, dj, dk, out, notEPS>>
           ELSE /\ pc' = "dk"
                /\ UNCHANGED <<n, dj, dk, ii, i, out, notEPS>>

ForI ==
    /\ pc = "i"
    /\ LET nx == RangeNext(i, ii, IStep) IN
         IF nx < IStop(n, dj, dk)
           THEN /\ i' = nx /\ pc' = "yield"
                /\ UNCHANGED <<n, dj, dk, ii, out, notEPS>>
           ELSE /\ pc' = "ii"
                /\ UNCHANGED <<n, dj, dk, ii, i, out, notEPS>>

Yield ==
    /\ pc = "yield"
    /\ out' = Append(out, YieldTriple(i, dj, dk))
    /\ pc' = "i"
    /\ UNCHANGED <<n, dj, dk, ii, i, notEPS>>

NextEPS == Start \/ ForDj \/ ForDk \/ ForIi \/ ForI \/ Yield

SpecEPS == InitEPS /\ [][NextEPS]_vars

(***************************************************************************)
(* Claims about enhanced_pattern_shifting.                                 *)
(***************************************************************************)
AllTriples(nn) ==
    {t \in (0..(nn - 1)) \X (0..(nn - 1)) \X (0..(nn - 1)) :
        t[1] < t[2] /\ t[2] < t[3]}

Emitted == {out[p] : p \in 1..Len(out)}

Binom3(nn) == (nn * (nn - 1) * (nn - 2)) \div 6

\* C1: for N >= 3 the finished generator has emitted exactly the set of all
\* (i, j, k) with 0 <= i < j < k < N, C(N,3) triples in all.
C1_AllTriplesEmitted ==
    (pc = "done" /\ n >= 3) =>
        (Emitted = AllTriples(n) /\ Len(out) = Binom3(n))

\* C2: no triple is emitted twice: two distinct positions of the emitted
\* sequence hold different triples.
C2_NoTripleTwice ==
    \A p, q \in 1..Len(out) : p # q => out[p] # out[q]

C2_Witness == pc = "done" /\ n = MaxN /\ Len(out) >= 20

\* gaps of an emitted triple
GapJ(t) == t[2] - t[1]
GapK(t) == t[3] - t[2]

\* t is emitted directly before u
InOrder(t, u) ==
    \/ GapJ(t) < GapJ(u)
    \/ /\ GapJ(t) = GapJ(u)
       /\ \/ GapK(t) < GapK(u)
          \/ /\ GapK(t) = GapK(u)
             /\ \/ t[1] % 3 < u[1] % 3
                \/ (t[1] % 3 = u[1] % 3 /\ u[1] = t[1] + 3)

\* C3: small gaps first: along the emitted sequence dj never decreases, for
\* equal dj dk never decreases, and inside a (dj, dk) block the residue class
\* of i mod 3 never decreases and i grows by 3 inside a residue class.
C3_SmallGapsFirst ==
    \A p \in 1..(Len(out) - 1) : InOrder(out[p], out[p + 1])

C3_Witness ==
    /\ pc = "done"
    /\ \E p \in 1..(Len(out) - 1) : GapJ(out[p]) < GapJ(out[p + 1])
    /\ \E p \in 1..(Len(out) - 1) :
         GapJ(out[p]) = GapJ(out[p + 1]) /\ GapK(out[p]) < GapK(out[p + 1])
    /\ \E p \in 1..(Len(out) - 1) :
         /\ GapJ(out[p]) = GapJ(out[p + 1]) /\ GapK(out[p]) = GapK(out[p + 1])
         /\ out[p][1] % 3 < out[p + 1][1] % 3
    /\ \E p \in 1..(Len(out) - 1) :
         /\ GapJ(out[p]) = GapJ(out[p + 1]) /\ GapK(out[p]) = GapK(out[p + 1])
         /\ out[p + 1][1] = out[p][1] + 3

\* C4: for N < 3 (zero and negative values included) the generator runs to
\* its end without entering a loop body, emits nothing and raises no error.
C4_EmptyBelowThree ==
    n < 3 => (out = << >> /\ pc \in {"start", "dj", "done"})

C4_Witness == n < 0 /\ pc = "done" /\ out = << >>

(***************************************************************************)
(* numpy arrays.  A 1-D array is a sequence, an (n, 3) array a sequence of *)
(* n rows, a (3, n) array a sequence of 3 rows of length n.  Indices kept  *)
(* in arrays are Python's (from 0).                                        *)
(***************************************************************************)
\* arr[idx] for a 1-D array and a 0-based index
At(arr, idx) == arr[idx + 1]

\* a.T for an (n, 3) array
TransposeN3(a) ==
    << [r \in 1..Len(a) |-> a[r][1]],
       [r \in 1..Len(a) |-> a[r][2]],
       [r \in 1..Len(a) |-> a[r][3]] >>

\* a.T for a (3, n) array
Transpose3N(a) ==
    [c \in 1..Len(a[1]) |-> <<a[1][c], a[2][c], a[3][c]>>]

\* ~mask
Not(mask) == [r \in 1..Len(mask) |-> ~mask[r]]

\* the number of True among mask[1..r]
RECURSIVE CountTrue(_, _)
CountTrue(mask, r) ==
    IF r = 0 THEN 0
    ELSE CountTrue(mask, r - 1) + (IF mask[r] THEN 1 ELSE 0)

\* arr[mask] along the first axis: a new array of the selected rows
RECURSIVE SelectRows(_, _, _)
SelectRows(arr, mask, r) ==
    IF r = 0 THEN << >>
    ELSE IF mask[r] THEN Append(SelectRows(arr, mask, r - 1), arr[r])
    ELSE SelectRows(arr, mask, r - 1)

Masked(arr, mask) == SelectRows(arr, mask, Len(arr))

\* arr[:, mask] for a (3, n) array
MaskedColumns(a, mask) ==
    <<Masked(a[1], mask), Masked(a[2], mask), Masked(a[3], mask)>>

\* arr[mask] = vals along the first axis
AssignMasked(arr, mask, vals) ==
    [r \in 1..Len(arr) |->
        IF mask[r] THEN vals[CountTrue(mask, r)] ELSE arr[r]]

\* arr[:, mask] = vals for (3, n) arrays
AssignMaskedColumns(a, mask, vals) ==
    << AssignMasked(a[1], mask, vals[1]),
       AssignMasked(a[2], mask, vals[2]),
       AssignMasked(a[3], mask, vals[3]) >>

\* x_pix[crater_triads].T : the (3, n) array of the triads' coordinates
TriadSplice(arr, triads) ==
    TransposeN3([r \in 1..Len(triads) |->
        <<At(arr, triads[r][1]), At(arr, triads[r][2]), At(arr, triads[r][3])>>])

(***************************************************************************)
(* utils.py, np_swap_columns:                                              *)
(*     arr[:, 0], arr[:, 1] = arr[:, 1], arr[:, 0].copy()                  *)
(* The right-hand side is built first (a view of column 1, a copy of       *)
(* column 0), then column 0 and column 1 are assigned in this order.       *)
(***************************************************************************)
\* the same statement without .copy(): the second value is a view of column 0
NpSwapColumnsNoCopy(arr) ==
    LET a1 == [r \in 1..Len(arr) |-> [arr[r] EXCEPT ![1] = arr[r][2]]]
    IN  [r \in 1..Len(arr) |-> [a1[r] EXCEPT ![2] = a1[r][1]]]

\* the statement on columns 1 and 2
NpSwapColumnsLastTwo(arr) ==
    LET c1 == [r \in 1..Len(arr) |-> arr[r][2]]
        a1 == [r \in 1..Len(arr) |-> [arr[r] EXCEPT ![2] = arr[r][3]]]
    IN  [r \in 1..Len(arr) |-> [a1[r] EXCEPT ![3] = c1[r]]]

np_swap_columns(arr) ==
    LET c0 == [r \in 1..Len(arr) |-> arr[r][1]]
        a1 == [r \in 1..Len(arr) |-> [arr[r] EXCEPT ![1] = arr[r][2]]]
    IN  [r \in 1..Len(arr) |-> [a1[r] EXCEPT ![2] = c0[r]]]

(***************************************************************************)
(* utils.py, cw_or_ccw / is_colinear / is_clockwise / all_clockwise.       *)
(***************************************************************************)
\* LA.det of a 3x3 matrix, exact
Det3(m) ==
      m[1][1] * (m[2][2] * m[3][3] - m[2][3] * m[3][2])
    - m[1][2] * (m[2][1] * m[3][3] - m[2][3] * m[3][1])
    + m[1][3] * (m[2][1] * m[3][2] - m[2][2] * m[3][1])

\* the determinants with an error of one unit each, as a computation that
\* rounds can return
cw_or_ccw_inexact(xt, yt) ==
    [c \in 1..Len(xt[1]) |->
        Det3(<< <<xt[1][c], yt[1][c], 1>>,
                <<xt[2][c], yt[2][c], 1>>,
                <<xt[3][c], yt[3][c], 1>> >>) + 1]

\* one determinant per triad (per column of the (3, n) arrays)
cw_or_ccw(xt, yt) ==
    [c \in 1..Len(xt[1]) |->
        Det3(<< <<xt[1][c], yt[1][c], 1>>,
                <<xt[2][c], yt[2][c], 1>>,
                <<xt[3][c], yt[3][c], 1>> >>)]

\* colinearity within a tolerance of one unit of area
is_colinear_tol(xt, yt) ==
    LET d == cw_or_ccw(xt, yt)
    IN  [c \in 1..Len(d) |-> d[c] >= 0 - 1 /\ d[c] <= 1]

is_colinear(xt, yt) ==
    LET d == cw_or_ccw(xt, yt) IN [c \in 1..Len(d) |-> d[c] = 0]

is_clockwise_le(xt, yt) ==
    LET d == cw_or_ccw(xt, yt) IN [c \in 1..Len(d) |-> d[c] <= 0]

is_clockwise(xt, yt) ==
    LET d == cw_or_ccw(xt, yt) IN [c \in 1..Len(d) |-> d[c] < 0]

\* the reduction over the non-strict comparison
all_clockwise_le(xt, yt) ==
    LET m == is_clockwise_le(xt, yt) IN \A c \in 1..Len(m) : m[c]

\* np.logical_and.reduce(is_clockwise(...)); True for no triads
all_clockwise(xt, yt) ==
    LET m == is_clockwise(xt, yt) IN \A c \in 1..Len(m) : m[c]

(***************************************************************************)
(* projective_invariants.py, from_detection_conics, lines 145-164.         *)
(* x_pix and y_pix are read at line 145 without a binding in the function: *)
(* the model takes them as the detections' centres (spec, section 3),      *)
(* given with the call.                                                    *)
(***************************************************************************)
Detections == {0, 1, 2}

\* rows of the crater_triads argument: index triples of distinct detections
\* in any order (the caller's, or an earlier application's), and the row
\* (0, 0, 0) that np.zeros leaves at line 139 where the generator yields
\* fewer than n_comb triples
TriadRows ==
    {t \in Detections \X Detections \X Detections :
        t[1] # t[2] /\ t[2] # t[3] /\ t[1] # t[3]} \cup {<<0, 0, 0>>}

RECURSIVE SeqsUpTo(_, _)
SeqsUpTo(S, len) ==
    IF len = 0 THEN {<< >>}
    ELSE LET shorter == SeqsUpTo(S, len - 1) IN
         shorter \cup {Append(q, e) : q \in {s \in shorter : Len(s) = len - 1}, e \in S}

InitOrient ==
    /\ EPSIdle /\ InvIdle /\ PIIdle /\ CamIdle /\ MatchIdle
    /\ x_pix \in [1..Cardinality(Detections) -> 0..MaxX]
    /\ y_pix \in [1..Cardinality(Detections) -> 0..MaxY]
    /\ crater_triads \in SeqsUpTo(TriadRows, MaxTriads)
    /\ arg = crater_triads
    /\ x_triads = << >> /\ y_triads = << >> /\ clockwise = << >>
    /\ crater_triads_cw = << >> /\ line = << >>
    /\ opc = "splice" /\ stdout = << >> /\ round = 1 /\ first = << >>

\* lines 145-146
Splice ==
    /\ opc = "splice"
    /\ x_triads' = TriadSplice(x_pix, crater_triads)
    /\ y_triads' = TriadSplice(y_pix, crater_triads)
    /\ clockwise' = is_clockwise(x_triads', y_triads')
    /\ opc' = "swap"
    /\ UNCHANGED <<x_pix, y_pix, crater_triads, crater_triads_cw, line,
                   stdout, round, arg, first, notOrient>>

\* An array is held with its storage: its own, or the storage of the array
\* the caller passed in.

\* a = b: a second name for the array of b, no new storage
ndarray_alias(a) == [data |-> a, base |-> "caller"]

\* a.copy(): new storage
ndarray_copy(a) == [data |-> a, base |-> "own"]

\* a[mask] with a boolean mask: advanced indexing, new storage
BoolMaskIndex(a, mask) == [data |-> Masked(a, mask), base |-> "own"]

\* the caller's (n, 3) array after vals were written into the rows mask of
\* an array dst, which is the caller's array itself when dst has no storage
\* of its own
WrittenThrough(callers, dst, mask, vals) ==
    IF dst.base = "caller" THEN AssignMasked(callers, mask, vals) ELSE callers

\* lines 148-151.  np_swap_columns writes into the array it is given, the
\* result of crater_triads[~clockwise]; line 149 writes into
\* crater_triads_cw.
SwapPass ==
    /\ opc = "swap"
    /\ LET cw0 == ndarray_copy(crater_triads)
           arr == BoolMaskIndex(crater_triads, Not(clockwise))
           swapped == np_swap_columns(arr.data)
           inner == IF arr.base = "caller"
                      THEN AssignMasked(crater_triads, Not(clockwise), swapped)
                      ELSE crater_triads
       IN  /\ crater_triads_cw' = AssignMasked(cw0.data, Not(clockwise), swapped)
           /\ crater_triads' = WrittenThrough(inner, cw0, Not(clockwise), swapped)
    /\ x_triads' =
          AssignMaskedColumns(x_triads, Not(clockwise),
              TransposeN3(np_swap_columns(
                  Masked(Transpose3N(x_triads), Not(clockwise)))))
    /\ y_triads' =
          AssignMaskedColumns(y_triads, Not(clockwise),
              TransposeN3(np_swap_columns(
                  Masked(Transpose3N(y_triads), Not(clockwise)))))
    /\ opc' = "check"
    /\ UNCHANGED <<x_pix, y_pix, clockwise, line,
                   stdout, round, arg, first, notOrient>>

\* line 153, condition false: nothing is dropped
AllClockwise ==
    /\ opc = "check"
    /\ all_clockwise(x_triads, y_triads)
    /\ opc' = "end"
    /\ UNCHANGED <<x_pix, y_pix, crater_triads, x_triads, y_triads, clockwise,
                   crater_triads_cw, line, stdout, round, arg, first, notOrient>>

\* lines 153-164: the colinear triads are dropped, and if the rest is still
\* not all clockwise the message is printed and the non-clockwise triads are
\* dropped as well
DropDegenerate ==
    /\ opc = "check"
    /\ ~all_clockwise(x_triads, y_triads)
    /\ line' = is_colinear(x_triads, y_triads)
    /\ LET x1 == MaskedColumns(x_triads, Not(line'))
           y1 == MaskedColumns(y_triads, Not(line'))
           t1 == Masked(crater_triads_cw, Not(line'))
       IN  IF all_clockwise(x1, y1)
             THEN /\ x_triads' = x1 /\ y_triads' = y1
                  /\ crater_triads_cw' = t1
                  /\ UNCHANGED <<clockwise, stdout>>
             ELSE /\ stdout' = Append(stdout, "Removing ccw triads")
                  /\ clockwise' = is_clockwise(x1, y1)
                  /\ x_triads' = MaskedColumns(x1, clockwise')
                  /\ y_triads' = MaskedColumns(y1, clockwise')
                  /\ crater_triads_cw' = Masked(t1, clockwise')
    /\ opc' = "end"
    /\ UNCHANGED <<x_pix, y_pix, crater_triads, round, arg, first, notOrient>>

\* the stage is applied to its own result: crater_triads_cw is the next
\* call's crater_triads, over the same detections
Reapply ==
    /\ opc = "end" /\ round = 1
    /\ first' = <<crater_triads_cw, x_triads, y_triads>>
    /\ crater_triads' = crater_triads_cw
    /\ round' = 2
    /\ opc' = "splice"
    /\ UNCHANGED <<x_pix, y_pix, x_triads, y_triads, clockwise,
                   crater_triads_cw, line, stdout, arg, notOrient>>

NextOrient ==
    Splice \/ SwapPass \/ AllClockwise \/ DropDegenerate \/ Reapply

SpecOrient == InitOrient /\ [][NextOrient]_vars

(***************************************************************************)
(* Claims about the orientation stage.                                     *)
(***************************************************************************)
\* the signed area of index triple t over the detections' centres
SignedArea(t) ==
    Det3(<< <<At(x_pix, t[1]), At(y_pix, t[1]), 1>>,
            <<At(x_pix, t[2]), At(y_pix, t[2]), 1>>,
            <<At(x_pix, t[3]), At(y_pix, t[3]), 1>> >>)

\* column r of the coordinate arrays holds the centres of index triple t
ColumnIs(r, t) ==
    \A c \in 1..3 :
        /\ x_triads[c][r] = At(x_pix, t[c])
        /\ y_triads[c][r] = At(y_pix, t[c])

\* C6: at the end of the orientation stage every remaining triad has a
\* strictly negative signed area (so none is colinear), and row r of the
\* index array names the detections whose centres are column r of the x and
\* y arrays.
C6_AllClockwiseAligned ==
    opc = "end" =>
        /\ \A c \in 1..3 : /\ Len(x_triads[c]) = Len(crater_triads_cw)
                           /\ Len(y_triads[c]) = Len(crater_triads_cw)
        /\ \A r \in 1..Len(crater_triads_cw) :
              /\ SignedArea(crater_triads_cw[r]) < 0
              /\ ColumnIs(r, crater_triads_cw[r])

\* a run that swapped a row, dropped a row and kept a row
C6_Witness ==
    /\ opc = "end" /\ round = 1
    /\ Len(crater_triads_cw) >= 1
    /\ Len(crater_triads_cw) < Len(crater_triads)
    /\ \E r \in 1..Len(crater_triads_cw) :
          \A q \in 1..Len(crater_triads) : crater_triads_cw[r] # crater_triads[q]

\* C7 as stated: after the swap pass a triad (i, j, k) that was not
\* clockwise is (i, k, j), in the index array and in the x and y arrays, and a
\* clockwise triad is unchanged.
C7_SwapsLastTwo ==
    opc = "check" =>
        \A r \in 1..Len(crater_triads) :
            LET t == crater_triads[r] IN
            IF SignedArea(t) < 0
              THEN crater_triads_cw[r] = t /\ ColumnIs(r, t)
              ELSE /\ crater_triads_cw[r] = <<t[1], t[3], t[2]>>
                   /\ ColumnIs(r, <<t[1], t[3], t[2]>>)

\* C7 amended: after the swap pass a triad (i, j, k) that was not clockwise
\* is (j, i, k): the first two indices are exchanged, in the index array and
\* in the x and y arrays; a clockwise triad is unchanged.
C7_SwapsFirstTwo ==
    opc = "check" =>
        /\ Len(crater_triads_cw) = Len(crater_triads)
        /\ \A r \in 1..Len(crater_triads) :
            LET t == crater_triads[r] IN
            IF SignedArea(t) < 0
              THEN crater_triads_cw[r] = t /\ ColumnIs(r, t)
              ELSE /\ crater_triads_cw[r] = <<t[2], t[1], t[3]>>
                   /\ ColumnIs(r, <<t[2], t[1], t[3]>>)

\* a batch with a clockwise row and a counter-clockwise row, after the pass
C7_Witness ==
    /\ opc = "check" /\ round = 1
    /\ \E r \in 1..Len(crater_triads) : SignedArea(crater_triads[r]) < 0
    /\ \E r \in 1..Len(crater_triads) : SignedArea(crater_triads[r]) > 0

\* C8: the stage applied to its own result returns that result: the index
\* array and the coordinate arrays of the second application are those of
\* the first.
C8_Idempotent ==
    (round = 2 /\ opc = "end") =>
        <<crater_triads_cw, x_triads, y_triads>> = first

\* the first application swapped a row and dropped a colinear row
C8_Witness ==
    /\ round = 2 /\ opc = "end"
    /\ Len(first[1]) >= 1
    /\ Len(first[1]) < Len(arg)
    /\ \E r \in 1..Len(first[1]) :
          \A q \in 1..Len(arg) : first[1][r] # arg[q]

\* the rows of the crater_triads argument whose three centres are not on
\* one line
NotColinearRows ==
    {r \in 1..Len(crater_triads) : SignedArea(crater_triads[r]) # 0}

\* C18: with exact determinants the message of line 160 is never printed:
\* after the swap pass every triad is clockwise or colinear (its signed area
\* is negative or zero), and at the end of the stage the triads left are as
\* many as the triads of the input that are not colinear, so none but the
\* colinear ones was removed.
C18_NeverRemovesCcw ==
    /\ stdout = << >>
    /\ opc = "check" =>
          \A r \in 1..Len(crater_triads_cw) :
              /\ SignedArea(crater_triads_cw[r]) <= 0
              /\ ColumnIs(r, crater_triads_cw[r])
    /\ opc = "end" => Len(crater_triads_cw) = Cardinality(NotColinearRows)

\* a batch of a counter-clockwise triad and a colinear triad, at the end of
\* the stage: the first was swapped and kept, the second dropped at line 157
C18_Witness ==
    /\ opc = "end" /\ round = 1
    /\ \E r \in 1..Len(crater_triads) : SignedArea(crater_triads[r]) > 0
    /\ \E r \in 1..Len(line) : line[r]
    /\ Len(crater_triads_cw) = 1
    /\ stdout = << >>

(***************************************************************************)
(* Exact arithmetic for the invariants.  A rational is <<num, den>> in     *)
(* lowest terms with den > 0.                                              *)
(***************************************************************************)
Abs(a) == IF a < 0 THEN 0 - a ELSE a

RECURSIVE Gcd(_, _)
Gcd(a, b) == IF b = 0 THEN a ELSE Gcd(b, a % b)

Rat(a, b) ==
    LET g == Gcd(Abs(a), Abs(b))
        s == IF b < 0 THEN 0 - 1 ELSE 1
    IN  <<(s * a) \div g, (s * b) \div g>>

RInt(a) == <<a, 1>>
RAdd(p, q) == Rat(p[1] * q[2] + q[1] * p[2], p[2] * q[2])
RSub(p, q) == Rat(p[1] * q[2] - q[1] * p[2], p[2] * q[2])
RMul(p, q) == Rat(p[1] * q[1], p[2] * q[2])
\* p / q for q # 0
RQuot(p, q) == Rat(p[1] * q[2], p[2] * q[1])
RAdd3(p, q, r) == RAdd(RAdd(p, q), r)
RPow2(p) == RMul(p, p)
RPow3(p) == RMul(p, RMul(p, p))

\* the integer cube root of a perfect cube
ICbrt(a) ==
    LET c == CHOOSE c \in 0..Abs(a) : c * c * c = Abs(a)
    IN  IF a < 0 THEN 0 - c ELSE c

\* np.cbrt of a rational whose numerator and denominator are perfect cubes
RCbrt(p) == Rat(ICbrt(p[1]), ICbrt(p[2]))

(***************************************************************************)
(* 3x3 matrices with rational entries: numpy's @, +, -, np.trace, LA.det,  *)
(* LA.inv, and the primitives of common/conics.py the engine imports.      *)
(***************************************************************************)
Idx3 == {1, 2, 3}

MatOfInts(m) == [a \in Idx3 |-> [b \in Idx3 |-> RInt(m[a][b])]]
MatAdd(x, y) == [a \in Idx3 |-> [b \in Idx3 |-> RAdd(x[a][b], y[a][b])]]
MatSub(x, y) == [a \in Idx3 |-> [b \in Idx3 |-> RSub(x[a][b], y[a][b])]]
MatScale(x, q) == [a \in Idx3 |-> [b \in Idx3 |-> RMul(x[a][b], q)]]
MatMul(x, y) ==
    [a \in Idx3 |-> [b \in Idx3 |->
        RAdd3(RMul(x[a][1], y[1][b]), RMul(x[a][2], y[2][b]),
              RMul(x[a][3], y[3][b]))]]
Trace(x) == RAdd3(x[1][1], x[2][2], x[3][3])

\* LA.det, exact
RDet3(m) ==
    RAdd(RSub(RMul(m[1][1], RSub(RMul(m[2][2], m[3][3]), RMul(m[2][3], m[3][2]))),
              RMul(m[1][2], RSub(RMul(m[2][1], m[3][3]), RMul(m[2][3], m[3][1])))),
         RMul(m[1][3], RSub(RMul(m[2][1], m[3][2]), RMul(m[2][2], m[3][1]))))

\* the indices of a 3x3 matrix other than a, in increasing order
Lo(a) == IF a = 1 THEN 2 ELSE 1
Hi(a) == IF a = 3 THEN 2 ELSE 3

\* the minor of m without row a and column b
Minor(m, a, b) ==
    RSub(RMul(m[Lo(a)][Lo(b)], m[Hi(a)][Hi(b)]),
         RMul(m[Lo(a)][Hi(b)], m[Hi(a)][Lo(b)]))

Sign(a, b) == IF (a + b) % 2 = 0 THEN RInt(1) ELSE RInt(0 - 1)

\* conics.matrix_adjugate: the classical adjugate, the transpose of the
\* cofactor matrix, defined for any square matrix
matrix_adjugate(m) ==
    [a \in Idx3 |-> [b \in Idx3 |-> RMul(Sign(a, b), Minor(m, b, a))]]

\* LA.inv of a non-singular matrix
MatInv(m) == MatScale(matrix_adjugate(m), RQuot(RInt(1), RDet3(m)))

\* conics.scale_det: the matrix rescaled so that its determinant is 1
scale_det(m) == MatScale(m, RCbrt(RQuot(RInt(1), RDet3(m))))

\* np.isfinite(LA.cond(m)): the condition number is infinite exactly for a
\* singular matrix (exact arithmetic)
CondIsFinite(m) == RDet3(m) # RInt(0)

(***************************************************************************)
(* Floating-point results that are not rational: a value is                *)
(*     q * sqrt(3)^s3 / rad^(1/4)                                          *)
(* for rationals q and rad > 0, or one of nan, inf, -inf, which numpy      *)
(* returns for a division by zero.                                         *)
(***************************************************************************)
Fin(q, s3, rad) ==
    IF q = RInt(0)
      THEN [k |-> "fin", q |-> RInt(0), s3 |-> 0, rad |-> RInt(1)]
      ELSE [k |-> "fin", q |-> q, s3 |-> s3, rad |-> rad]

V(q) == Fin(q, 0, RInt(1))

NonFinite(kind) == [k |-> kind, q |-> RInt(0), s3 |-> 0, rad |-> RInt(1)]

\* numpy's num * sqrt(3)^s3 / den
VDiv(num, s3, den) ==
    IF den = RInt(0)
      THEN IF num = RInt(0) THEN NonFinite("nan")
           ELSE IF num[1] > 0 THEN NonFinite("inf") ELSE NonFinite("-inf")
      ELSE Fin(RQuot(num, den), s3, RInt(1))

\* numpy's num * sqrt(3)^s3 / np.sqrt(np.sqrt(radicand)), radicand >= 0
VDivRoot4(num, s3, radicand) ==
    IF radicand = RInt(0)
      THEN VDiv(num, s3, RInt(0))
      ELSE Fin(num, s3, radicand)

IsFinite(v) == v.k = "fin"

(***************************************************************************)
(* projective_invariants.py, PermutationInvariant, on scalars.             *)
(***************************************************************************)
F1(x, y, z) == V(RAdd3(x, y, z))

\* x**2 + y**2 + z**2 - (x*y + y*z + z*x)
FDenominator(x, y, z) ==
    RSub(RAdd3(RPow2(x), RPow2(y), RPow2(z)),
         RAdd3(RMul(x, y), RMul(y, z), RMul(z, x)))

F2(x, y, z) ==
    VDiv(RSub(RAdd(RMul(RInt(2), RAdd3(RPow3(x), RPow3(y), RPow3(z))),
                   RMul(RInt(12), RMul(x, RMul(y, z)))),
              RMul(RInt(3),
                   RAdd(RAdd3(RMul(RPow2(x), y), RMul(RPow2(y), x), RMul(RPow2(y), z)),
                        RAdd3(RMul(RPow2(z), y), RMul(RPow2(z), x), RMul(RPow2(x), z))))),
         0, FDenominator(x, y, z))

F3(x, y, z) ==
    VDiv(RMul(RInt(0 - 3), RMul(RSub(x, y), RMul(RSub(y, z), RSub(z, x)))),
         1, FDenominator(x, y, z))

\* the rational factor of G1
G1(x1, y1, z1, x2, y2, z2) ==
    RSub(RMul(Rat(3, 2), RAdd3(RMul(x1, x2), RMul(y1, y2), RMul(z1, z2))),
         RMul(Rat(1, 2), RMul(RAdd3(x1, y1, z1), RAdd3(x2, y2, z2))))

\* the rational factor of G2, which is this times sqrt(3)
G2(x1, y1, z1, x2, y2, z2) ==
    RMul(Rat(1, 2),
         RSub(RAdd3(RMul(x1, z2), RMul(y1, x2), RMul(z1, y2)),
              RAdd3(RMul(x1, y2), RMul(y1, z2), RMul(z1, x2))))

\* (x - y)**2 + (y - z)**2 + (z - x)**2
SquaredDiffs(x, y, z) ==
    RAdd3(RPow2(RSub(x, y)), RPow2(RSub(y, z)), RPow2(RSub(z, x)))

GRadicand(x1, y1, z1, x2, y2, z2) ==
    RMul(SquaredDiffs(x1, y1, z1), SquaredDiffs(x2, y2, z2))

G_tilde1(x1, y1, z1, x2, y2, z2) ==
    VDivRoot4(G1(x1, y1, z1, x2, y2, z2), 0, GRadicand(x1, y1, z1, x2, y2, z2))

G_tilde2(x1, y1, z1, x2, y2, z2) ==
    VDivRoot4(G2(x1, y1, z1, x2, y2, z2), 1, GRadicand(x1, y1, z1, x2, y2, z2))

(***************************************************************************)
(* Floating-point arithmetic on scalars: every operation returns the exact *)
(* result rounded to the nearest float of MantissaBits significant bits,   *)
(* ties to even; the exponent is not bounded.                              *)
(***************************************************************************)
RECURSIVE Pow2(_)
Pow2(e) == IF e = 0 THEN 1 ELSE 2 * Pow2(e - 1)

\* 2^e as a rational, e of either sign
RPow2K(e) == IF e >= 0 THEN <<Pow2(e), 1>> ELSE <<1, Pow2(0 - e)>>

RLess(p, q) == p[1] * q[2] < q[1] * p[2]
RAbs(p) == <<Abs(p[1]), p[2]>>
RNeg(p) == <<0 - p[1], p[2]>>

\* the exponent e of q > 0: 2^e <= q < 2^(e+1)
RECURSIVE ExpOf(_, _)
ExpOf(q, e) ==
    IF RLess(q, RPow2K(e)) THEN ExpOf(q, e - 1)
    ELSE IF ~RLess(q, RPow2K(e + 1)) THEN ExpOf(q, e + 1)
    ELSE e

\* the integer nearest to s >= 0, ties to even
NearestEven(s) ==
    LET m0 == s[1] \div s[2]
        twice == 2 * (s[1] - m0 * s[2])
    IN  IF twice < s[2] THEN m0
        ELSE IF twice > s[2] THEN m0 + 1
        ELSE IF m0 % 2 = 0 THEN m0 ELSE m0 + 1

\* the float nearest to the rational q
Fl(q) ==
    IF q[1] = 0 THEN q
    ELSE LET e == ExpOf(RAbs(q), 0)
             m == NearestEven(RMul(RAbs(q), RPow2K(MantissaBits - 1 - e)))
             r == RMul(RInt(m), RPow2K(e - MantissaBits + 1))
         IN  IF q[1] < 0 THEN RNeg(r) ELSE r

FAdd(p, q) == Fl(RAdd(p, q))
FSub(p, q) == Fl(RSub(p, q))
FMul(p, q) == Fl(RMul(p, q))
FAdd3(p, q, r) == FAdd(FAdd(p, q), r)
\* x ** 2 and x ** 3
FPow2(p) == Fl(RPow2(p))
FPow3(p) == Fl(RPow3(p))

\* np.sqrt of q >= 0
FSqrt(q) ==
    IF q[1] = 0 THEN q
    ELSE LET e == ExpOf(q, 0) \div 2
             t == RMul(q, RPow2K(2 * (MantissaBits - 1 - e)))
             m0 == CHOOSE m \in Pow2(MantissaBits - 1)..(Pow2(MantissaBits) - 1) :
                       /\ ~RLess(t, RInt(m * m))
                       /\ RLess(t, RInt((m + 1) * (m + 1)))
             half == Rat(4 * m0 * m0 + 4 * m0 + 1, 4)
             m == IF RLess(t, half) THEN m0
                  ELSE IF RLess(half, t) THEN m0 + 1
                  ELSE IF m0 % 2 = 0 THEN m0 ELSE m0 + 1
         IN  RMul(RInt(m), RPow2K(e - MantissaBits + 1))

\* num / den on floats: a division by zero gives nan or an infinity
FDiv(num, den) ==
    IF den = RInt(0) THEN VDiv(num, 0, den) ELSE V(Fl(RQuot(num, den)))

(***************************************************************************)
(* projective_invariants.py, PermutationInvariant, on floats, each         *)
(* expression in Python's order of evaluation.                             *)
(***************************************************************************)
F1_fl(x, y, z) == V(FAdd3(x, y, z))

\* x**2 + y**2 + z**2 - (x*y + y*z + z*x)
FDenominator_fl(x, y, z) ==
    FSub(FAdd3(FPow2(x), FPow2(y), FPow2(z)),
         FAdd3(FMul(x, y), FMul(y, z), FMul(z, x)))

F2Numerator_fl(x, y, z) ==
    FSub(FAdd(FMul(RInt(2), FAdd3(FPow3(x), FPow3(y), FPow3(z))),
              FMul(FMul(FMul(RInt(12), x), y), z)),
         FMul(RInt(3),
              FAdd(FAdd(FAdd(FAdd(FAdd(FMul(FPow2(x), y), FMul(FPow2(y), x)),
                                  FMul(FPow2(y), z)),
                             FMul(FPow2(z), y)),
                        FMul(FPow2(z), x)),
                   FMul(FPow2(x), z))))

\* F2 with a zero denominator replaced by a finite value
F2Clamped_fl(x, y, z) ==
    IF FDenominator_fl(x, y, z) = RInt(0) THEN V(RInt(0))
    ELSE FDiv(F2Numerator_fl(x, y, z), FDenominator_fl(x, y, z))

F2_fl(x, y, z) == FDiv(F2Numerator_fl(x, y, z), FDenominator_fl(x, y, z))

F3_fl(x, y, z) ==
    FDiv(FMul(FMul(FMul(FMul(RInt(0 - 3), FSqrt(RInt(3))), FSub(x, y)),
                   FSub(y, z)),
              FSub(z, x)),
         FDenominator_fl(x, y, z))

G1_fl(x, y, z, u, v, w) ==
    FSub(FMul(Rat(3, 2), FAdd3(FMul(x, u), FMul(y, v), FMul(z, w))),
         FMul(FMul(Rat(1, 2), FAdd3(x, y, z)), FAdd3(u, v, w)))

G2_fl(x, y, z, u, v, w) ==
    FMul(Fl(RQuot(FSqrt(RInt(3)), RInt(2))),
         FSub(FAdd3(FMul(x, w), FMul(y, u), FMul(z, v)),
              FAdd3(FMul(x, v), FMul(y, w), FMul(z, u))))

\* (x - y)**2 + (y - z)**2 + (z - x)**2
SquaredDiffs_fl(x, y, z) ==
    FAdd3(FPow2(FSub(x, y)), FPow2(FSub(y, z)), FPow2(FSub(z, x)))

\* np.sqrt(np.sqrt(...)) of line 82-83
GDenominator_fl(x, y, z, u, v, w) ==
    FSqrt(FSqrt(FMul(SquaredDiffs_fl(x, y, z), SquaredDiffs_fl(u, v, w))))

G_tilde1_fl(x, y, z, u, v, w) ==
    FDiv(G1_fl(x, y, z, u, v, w), GDenominator_fl(x, y, z, u, v, w))

G_tilde2_fl(x, y, z, u, v, w) ==
    FDiv(G2_fl(x, y, z, u, v, w), GDenominator_fl(x, y, z, u, v, w))

(***************************************************************************)
(* 2-D numpy arrays with their shape: v[r][c] for r in 1..nr, c in 1..nc.  *)
(***************************************************************************)
Arr2(rows, cols, f) == [nr |-> rows, nc |-> cols, v |-> f]

\* a.T
T(a) ==
    Arr2(a.nc, a.nr, [r \in 1..a.nc |-> [c \in 1..a.nr |-> a.v[c][r]]])

\* np.array((u, v, ...)) of 1-D arrays of length m
Stack(rows, m) == Arr2(Len(rows), m, rows)

\* a 1-D array as np.column_stack takes it: one column
AsColumn(x) == Arr2(Len(x), 1, [r \in 1..Len(x) |-> <<x[r]>>])

\* np.column_stack of two arrays with the same number of rows
HCat(a, b) ==
    Arr2(a.nr, a.nc + b.nc,
         [r \in 1..a.nr |-> [c \in 1..(a.nc + b.nc) |->
             IF c <= a.nc THEN a.v[r][c] ELSE b.v[r][c - a.nc]]])

RECURSIVE column_stack(_)
column_stack(parts) ==
    IF Len(parts) = 1 THEN parts[1]
    ELSE HCat(column_stack(SubSeq(parts, 1, Len(parts) - 1)), parts[Len(parts)])

\* PermutationInvariant.F on arrays: np.array((F1, F2, F3)), shape (3, m)
F(x, y, z) ==
    Stack(<< [r \in 1..Len(x) |-> F1(x[r], y[r], z[r])],
             [r \in 1..Len(x) |-> F2(x[r], y[r], z[r])],
             [r \in 1..Len(x) |-> F3(x[r], y[r], z[r])] >>, Len(x))

\* PermutationInvariant.G_tilde on arrays, shape (2, m)
G_tilde(x1, y1, z1, x2, y2, z2) ==
    Stack(<< [r \in 1..Len(x1) |->
                 G_tilde1(x1[r], y1[r], z1[r], x2[r], y2[r], z2[r])],
             [r \in 1..Len(x1) |->
                 G_tilde2(x1[r], y1[r], z1[r], x2[r], y2[r], z2[r])] >>, Len(x1))

Vs(x) == [r \in 1..Len(x) |-> V(x[r])]

(***************************************************************************)
(* projective_invariants.py, CoplanarInvariants.__init__ and get_pattern.  *)
(* The conics are integer matrices of ellipses whose determinants are      *)
(* perfect cubes, which keeps scale_det rational.                          *)
(***************************************************************************)
\* x^2 + y^2 = 1
Conic0 == << <<1, 0, 0>>, <<0, 1, 0>>, <<0, 0, 0 - 1>> >>
\* det -1
Conic1 == << <<1, 0 - 1, 0 - 1>>, <<0 - 1, 2, 0>>, <<0 - 1, 0, 1>> >>
\* det -8
Conic2 == << <<2, 0, 0>>, <<0, 1, 0 - 2>>, <<0, 0 - 2, 0>> >>
\* (x - 1)^2 + y^2 = 1: the difference with Conic0 is singular and not zero
Conic3 == << <<1, 0, 0 - 1>>, <<0, 1, 0>>, <<0 - 1, 0, 0>> >>
Palette == {Conic0, Conic1, Conic2, Conic3}

\* rows of the crater_triads argument over four detections: two in the
\* enumerator's order, and the first with its first two indices exchanged
InvRows == {<<0, 1, 2>>, <<1, 0, 2>>, <<1, 2, 3>>}

\* the conic array of vertex c of the triads: A_craters[crater_triads[:, c]]
Vertex(craters, triads, c) ==
    [r \in 1..Len(triads) |-> MatOfInts(At(craters, triads[r][c]))]

InitInv ==
    /\ EPSIdle /\ OrientIdle /\ PIIdle /\ CamIdle /\ MatchIdle
    /\ A_craters \in [1..4 -> Palette]
    /\ in_triads \in SeqsUpTo(InvRows, MaxRows)
    /\ normalize_det \in BOOLEAN
    /\ A_i = Vertex(A_craters, in_triads, 1)
    /\ A_j = Vertex(A_craters, in_triads, 2)
    /\ A_k = Vertex(A_craters, in_triads, 3)
    /\ overlapped_craters = << >> /\ self_crater_triads = << >>
    /\ I_ij = << >> /\ I_ji = << >> /\ I_ik = << >> /\ I_ki = << >>
    /\ I_jk = << >> /\ I_kj = << >> /\ I_ijk = << >>
    /\ permutation_invariant = FALSE /\ pattern = << >> /\ ipc = "init"

\* line 110-114 with only the first two differences tested
OverlappedTwoPairs(ai, aj, ak) ==
    [r \in 1..Len(ai) |->
        ~(/\ CondIsFinite(MatSub(ai[r], aj[r]))
          /\ CondIsFinite(MatSub(ai[r], ak[r])))]

\* lines 110-114
Overlapped(ai, aj, ak) ==
    [r \in 1..Len(ai) |->
        ~(/\ CondIsFinite(MatSub(ai[r], aj[r]))
          /\ CondIsFinite(MatSub(ai[r], ak[r]))
          /\ CondIsFinite(MatSub(aj[r], ak[r])))]

\* lines 109-115 without line 116: the triads are not filtered
FilterOverlappedConicsOnly ==
    /\ ipc = "init"
    /\ overlapped_craters' = Overlapped(A_i, A_j, A_k)
    /\ A_i' = Masked(A_i, Not(overlapped_craters'))
    /\ A_j' = Masked(A_j, Not(overlapped_craters'))
    /\ A_k' = Masked(A_k, Not(overlapped_craters'))
    /\ self_crater_triads' = in_triads
    /\ ipc' = "normalize"
    /\ UNCHANGED <<A_craters, in_triads, normalize_det,
                   I_ij, I_ji, I_ik, I_ki, I_jk, I_kj, I_ijk,
                   permutation_invariant, pattern, notInv>>

\* lines 109-116
FilterOverlapped ==
    /\ ipc = "init"
    /\ overlapped_craters' = Overlapped(A_i, A_j, A_k)
    /\ A_i' = Masked(A_i, Not(overlapped_craters'))
    /\ A_j' = Masked(A_j, Not(overlapped_craters'))
    /\ A_k' = Masked(A_k, Not(overlapped_craters'))
    /\ self_crater_triads' = Masked(in_triads, Not(overlapped_craters'))
    /\ ipc' = "normalize"
    /\ UNCHANGED <<A_craters, in_triads, normalize_det,
                   I_ij, I_ji, I_ik, I_ki, I_jk, I_kj, I_ijk,
                   permutation_invariant, pattern, notInv>>

\* lines 118-119
Normalize ==
    /\ ipc = "normalize"
    /\ IF normalize_det
         THEN /\ A_i' = [r \in 1..Len(A_i) |-> scale_det(A_i[r])]
              /\ A_j' = [r \in 1..Len(A_j) |-> scale_det(A_j[r])]
              /\ A_k' = [r \in 1..Len(A_k) |-> scale_det(A_k[r])]
         ELSE UNCHANGED <<A_i, A_j, A_k>>
    /\ ipc' = "invariants"
    /\ UNCHANGED <<A_craters, in_triads, normalize_det, overlapped_craters,
                   self_crater_triads,
                   I_ij, I_ji, I_ik, I_ki, I_jk, I_kj, I_ijk,
                   permutation_invariant, pattern, notInv>>

\* np.trace(LA.inv(a) @ b, axis1=-2, axis2=-1), one value per triad
TraceInv(a, b) == [r \in 1..Len(a) |-> Trace(MatMul(MatInv(a[r]), b[r]))]

\* line 127
TraceAdj(ai, aj, ak) ==
    [r \in 1..Len(ai) |->
        Trace(MatMul(MatSub(matrix_adjugate(MatAdd(aj[r], ak[r])),
                            matrix_adjugate(MatSub(aj[r], ak[r]))),
                     ai[r]))]

\* lines 121-127
ComputeInvariants ==
    /\ ipc = "invariants"
    /\ I_ij' = TraceInv(A_i, A_j) /\ I_ji' = TraceInv(A_j, A_i)
    /\ I_ik' = TraceInv(A_i, A_k) /\ I_ki' = TraceInv(A_k, A_i)
    /\ I_jk' = TraceInv(A_j, A_k) /\ I_kj' = TraceInv(A_k, A_j)
    /\ I_ijk' = TraceAdj(A_i, A_j, A_k)
    /\ ipc' = "built"
    /\ UNCHANGED <<A_craters, in_triads, normalize_det, A_i, A_j, A_k,
                   overlapped_craters, self_crater_triads,
                   permutation_invariant, pattern, notInv>>

\* lines 272-277 without the F1 of the reverse triple
PermutationPatternSix(ij, ji, ik, ki, jk, kj, ijk) ==
    T(column_stack(<< T(F(ij, jk, ki)),
                      T(G_tilde(ij, jk, ki, ji, kj, ik)),
                      AsColumn(Vs(ijk)) >>))

\* lines 272-277 with F on (I_ij, I_ik, I_jk)
PermutationPatternMixed(ij, ji, ik, ki, jk, kj, ijk) ==
    T(column_stack(<< T(F(ij, ik, jk)),
                      AsColumn([r \in 1..Len(ji) |-> F1(ji[r], kj[r], ik[r])]),
                      T(G_tilde(ij, jk, ki, ji, kj, ik)),
                      AsColumn(Vs(ijk)) >>))

\* lines 272-277
PermutationPattern(ij, ji, ik, ki, jk, kj, ijk) ==
    T(column_stack(<< T(F(ij, jk, ki)),
                      AsColumn([r \in 1..Len(ji) |-> F1(ji[r], kj[r], ik[r])]),
                      T(G_tilde(ij, jk, ki, ji, kj, ik)),
                      AsColumn(Vs(ijk)) >>))

\* lines 280-288
RawPattern(ij, ji, ik, ki, jk, kj, ijk) ==
    column_stack(<< AsColumn(Vs(ij)), AsColumn(Vs(ji)), AsColumn(Vs(ik)),
                    AsColumn(Vs(ki)), AsColumn(Vs(jk)), AsColumn(Vs(kj)),
                    AsColumn(Vs(ijk)) >>)

\* lines 252-288
GetPattern ==
    /\ ipc \in {"built", "pattern"}
    /\ \E flag \in BOOLEAN :
         /\ permutation_invariant' = flag
         /\ pattern' =
              IF flag
                THEN PermutationPattern(I_ij, I_ji, I_ik, I_ki, I_jk, I_kj, I_ijk)
                ELSE RawPattern(I_ij, I_ji, I_ik, I_ki, I_jk, I_kj, I_ijk)
    /\ ipc' = "pattern"
    /\ UNCHANGED <<A_craters, in_triads, normalize_det, A_i, A_j, A_k,
                   overlapped_craters, self_crater_triads,
                   I_ij, I_ji, I_ik, I_ki, I_jk, I_kj, I_ijk, notInv>>

NextInv == FilterOverlapped \/ Normalize \/ ComputeInvariants \/ GetPattern

SpecInv == InitInv /\ [][NextInv]_vars

(***************************************************************************)
(* Claims about CoplanarInvariants.                                        *)
(***************************************************************************)
\* the integer difference of two conics of the detections
ConicDiff(a, b) ==
    [r \in Idx3 |-> [c \in Idx3 |-> At(A_craters, a)[r][c] - At(A_craters, b)[r][c]]]

\* all three pairwise differences of index triple t are non-singular
NonSingularDiffs(t) ==
    /\ Det3(ConicDiff(t[1], t[2])) # 0
    /\ Det3(ConicDiff(t[1], t[3])) # 0
    /\ Det3(ConicDiff(t[2], t[3])) # 0

\* the rows of the crater_triads argument that should survive, in order
Survivors == SelectSeq(in_triads, NonSingularDiffs)

InvariantsOf(a, b, c) ==
    << TraceInv(<<a>>, <<b>>), TraceInv(<<b>>, <<a>>),
       TraceInv(<<a>>, <<c>>), TraceInv(<<c>>, <<a>>),
       TraceInv(<<b>>, <<c>>), TraceInv(<<c>>, <<b>>),
       TraceAdj(<<a>>, <<b>>, <<c>>) >>

\* the permutation-invariant feature column of the triad (a, b, c)
FeaturesOf(a, b, c) ==
    LET w == InvariantsOf(a, b, c)
        f == PermutationPattern(w[1], w[2], w[3], w[4], w[5], w[6], w[7])
    IN  [c1 \in 1..f.nr |-> f.v[c1][1]]

PatternColumn(r) == [c \in 1..pattern.nr |-> pattern.v[c][r]]

AllFinite(col) == \A c \in 1..Len(col) : IsFinite(col[c])

\* C9: in permutation-invariant mode the feature column of a triad
\* (A, B, C) with no zero denominator equals, component by component, the
\* feature column of its cyclic rotation (B, C, A).
C9_CyclicRotationInvariant ==
    (ipc = "pattern" /\ permutation_invariant) =>
        \A r \in 1..Len(A_i) :
            AllFinite(PatternColumn(r)) =>
                PatternColumn(r) = FeaturesOf(A_j[r], A_k[r], A_i[r])

\* a triad with finite features whose raw invariants change under rotation
C9_Witness ==
    /\ ipc = "pattern" /\ permutation_invariant
    /\ \E r \in 1..Len(A_i) :
          /\ AllFinite(PatternColumn(r))
          /\ I_ij[r] # I_jk[r]
          /\ I_ji[r] # I_kj[r]
          /\ PatternColumn(r)[3] # V(RInt(0))
          /\ PatternColumn(r)[6] # V(RInt(0))

\* the surviving triads
NTriads == Len(self_crater_triads)

\* C10 as stated: get_pattern returns 6 values per triad in
\* permutation-invariant mode and 7 in raw mode, one entry per surviving
\* triad in both modes.
C10_SixOrSeven ==
    ipc = "pattern" =>
        IF permutation_invariant
          THEN \/ (pattern.nr = NTriads /\ pattern.nc = 6)
               \/ (pattern.nr = 6 /\ pattern.nc = NTriads)
          ELSE pattern.nr = NTriads /\ pattern.nc = 7

\* C10 amended: get_pattern returns 7 values per triad in both modes: in
\* raw mode an (m, 7) array whose row r holds the seven invariants of
\* surviving triad r, in permutation-invariant mode a (7, m) array whose
\* column r holds F1, F2, F3 of (I_ij, I_jk, I_ki), F1 of (I_ji, I_kj, I_ik),
\* the two G_tilde values and I_ijk of surviving triad r.
C10_SevenPerTriad ==
    ipc = "pattern" =>
        IF permutation_invariant
          THEN /\ pattern.nr = 7 /\ pattern.nc = NTriads
               /\ \A r \in 1..NTriads :
                     PatternColumn(r) =
                        << F1(I_ij[r], I_jk[r], I_ki[r]),
                           F2(I_ij[r], I_jk[r], I_ki[r]),
                           F3(I_ij[r], I_jk[r], I_ki[r]),
                           F1(I_ji[r], I_kj[r], I_ik[r]),
                           G_tilde1(I_ij[r], I_jk[r], I_ki[r], I_ji[r], I_kj[r], I_ik[r]),
                           G_tilde2(I_ij[r], I_jk[r], I_ki[r], I_ji[r], I_kj[r], I_ik[r]),
                           V(I_ijk[r]) >>
          ELSE /\ pattern.nr = NTriads /\ pattern.nc = 7
               /\ \A r \in 1..NTriads :
                     pattern.v[r] =
                        << V(I_ij[r]), V(I_ji[r]), V(I_ik[r]), V(I_ki[r]),
                           V(I_jk[r]), V(I_kj[r]), V(I_ijk[r]) >>

\* the permutation-invariant pattern of two surviving triads
C10_Witness ==
    /\ ipc = "pattern" /\ permutation_invariant
    /\ NTriads = 2
    /\ pattern.nr = 7 /\ pattern.nc = 2


\* the (3, n) coordinate array with points a and b of every triad exchanged
ExchangePoints(xt, a, b) ==
    [c \in 1..3 |-> IF c = a THEN xt[b] ELSE IF c = b THEN xt[a] ELSE xt[c]]

PointPairs == {<<1, 2>>, <<1, 3>>, <<2, 3>>}

ConicOf(d) ==
    IF normalize_det THEN scale_det(MatOfInts(At(A_craters, d)))
    ELSE MatOfInts(At(A_craters, d))

\* q is p with some entries left out, the others in the same order
IsSubsequence(q, p) ==
    \E keep \in [1..Len(p) -> BOOLEAN] : q = Masked(p, keep)

\* C12: after construction the stored crater_triads and the seven invariant
\* arrays have one entry per surviving triad, entry r of each invariant is
\* the trace computed from the conics of the detections named by stored
\* triad r, and the stored triads are the input triads with some rows left
\* out and the others in their input order.
C12_AlignedInInputOrder ==
    ipc \in {"built", "pattern"} =>
        /\ \A x \in {I_ij, I_ji, I_ik, I_ki, I_jk, I_kj, I_ijk} :
              Len(x) = Len(self_crater_triads)
        /\ \A r \in 1..Len(self_crater_triads) :
              LET a == ConicOf(self_crater_triads[r][1])
                  b == ConicOf(self_crater_triads[r][2])
                  c == ConicOf(self_crater_triads[r][3])
              IN  /\ I_ij[r] = Trace(MatMul(MatInv(a), b))
                  /\ I_ji[r] = Trace(MatMul(MatInv(b), a))
                  /\ I_ik[r] = Trace(MatMul(MatInv(a), c))
                  /\ I_ki[r] = Trace(MatMul(MatInv(c), a))
                  /\ I_jk[r] = Trace(MatMul(MatInv(b), c))
                  /\ I_kj[r] = Trace(MatMul(MatInv(c), b))
                  /\ I_ijk[r] = Trace(MatMul(MatSub(matrix_adjugate(MatAdd(b, c)),
                                                    matrix_adjugate(MatSub(b, c))), a))
        /\ IsSubsequence(self_crater_triads, in_triads)

\* the second of two input triads survives alone, with invariants that
\* differ from one another
C12_Witness ==
    /\ ipc = "built"
    /\ Len(in_triads) = 2 /\ overlapped_craters = <<TRUE, FALSE>>
    /\ self_crater_triads = <<in_triads[2]>>
    /\ in_triads[1] # in_triads[2]
    /\ I_ij[1] # I_ji[1] /\ I_ij[1] # I_jk[1]

(***************************************************************************)
(* The same three detections in input order and in reversed input order:   *)
(* the orientation stage on the single triad of each order, and the        *)
(* constructor and get_pattern on the two canonical triads.                *)
(***************************************************************************)
\* the centre of the ellipse of a conic matrix: the x_pix, y_pix from which
\* crater_representation built it
CentreX(m) ==
    (m[1][2] * m[2][3] - m[2][2] * m[1][3]) \div (m[1][1] * m[2][2] - m[1][2] * m[1][2])

CentreY(m) ==
    (m[1][2] * m[1][3] - m[1][1] * m[2][3]) \div (m[1][1] * m[2][2] - m[1][2] * m[1][2])

\* lines 145-164 as a function of the stage's inputs: crater_triads_cw
OrientationStage(xp, yp, triads) ==
    LET x0 == TriadSplice(xp, triads)
        y0 == TriadSplice(yp, triads)
        cw == is_clockwise(x0, y0)
        t1 == AssignMasked(triads, Not(cw),
                           np_swap_columns(Masked(triads, Not(cw))))
        x1 == AssignMaskedColumns(x0, Not(cw),
                  TransposeN3(np_swap_columns(Masked(Transpose3N(x0), Not(cw)))))
        y1 == AssignMaskedColumns(y0, Not(cw),
                  TransposeN3(np_swap_columns(Masked(Transpose3N(y0), Not(cw)))))
    IN  IF all_clockwise(x1, y1) THEN t1
        ELSE LET ln == is_colinear(x1, y1)
                 x2 == MaskedColumns(x1, Not(ln))
                 y2 == MaskedColumns(y1, Not(ln))
                 t2 == Masked(t1, Not(ln))
             IN  IF all_clockwise(x2, y2) THEN t2
                 ELSE Masked(t2, is_clockwise(x2, y2))

InputOrder == <<0, 1, 2>>
ReversedOrder == <<2, 1, 0>>

CentresX(craters) == [d \in 1..Len(craters) |-> CentreX(craters[d])]
CentresY(craters) == [d \in 1..Len(craters) |-> CentreY(craters[d])]

\* the triad of the detections in input order and the triad of the same
\* detections in reversed order, each canonicalized by a call of its own
CanonicalPair(craters) ==
    OrientationStage(CentresX(craters), CentresY(craters), <<InputOrder>>)
        \o OrientationStage(CentresX(craters), CentresY(craters), <<ReversedOrder>>)

InitReversed ==
    /\ EPSIdle /\ OrientIdle /\ PIIdle /\ CamIdle /\ MatchIdle
    /\ A_craters \in [1..3 -> Palette]
    /\ in_triads = CanonicalPair(A_craters)
    /\ normalize_det \in BOOLEAN
    /\ A_i = Vertex(A_craters, in_triads, 1)
    /\ A_j = Vertex(A_craters, in_triads, 2)
    /\ A_k = Vertex(A_craters, in_triads, 3)
    /\ overlapped_craters = << >> /\ self_crater_triads = << >>
    /\ I_ij = << >> /\ I_ji = << >> /\ I_ik = << >> /\ I_ki = << >>
    /\ I_jk = << >> /\ I_kj = << >> /\ I_ijk = << >>
    /\ permutation_invariant = FALSE /\ pattern = << >> /\ ipc = "init"

SpecReversed == InitReversed /\ [][NextInv]_vars

\* the signed area of the detections' centres in input order
InputArea ==
    Det3(<< <<CentreX(A_craters[1]), CentreY(A_craters[1]), 1>>,
            <<CentreX(A_craters[2]), CentreY(A_craters[2]), 1>>,
            <<CentreX(A_craters[3]), CentreY(A_craters[3]), 1>> >>)

\* the raw vector v with its entries taken in the order p
Permuted(v, p) == [c \in 1..Len(p) |-> v[p[c]]]

InitCaller ==
    /\ EPSIdle /\ PIIdle /\ CamIdle /\ MatchIdle
    /\ A_craters \in [1..3 -> Palette]
    /\ x_pix = CentresX(A_craters) /\ y_pix = CentresY(A_craters)
    /\ crater_triads = <<InputOrder, ReversedOrder>>
    /\ arg = crater_triads
    /\ x_triads = << >> /\ y_triads = << >> /\ clockwise = << >>
    /\ crater_triads_cw = << >> /\ line = << >>
    /\ opc = "splice" /\ stdout = << >> /\ round = 1 /\ first = << >>
    /\ in_triads = CanonicalPair(A_craters)
    /\ normalize_det \in BOOLEAN
    /\ A_i = Vertex(A_craters, in_triads, 1)
    /\ A_j = Vertex(A_craters, in_triads, 2)
    /\ A_k = Vertex(A_craters, in_triads, 3)
    /\ overlapped_craters = << >> /\ self_crater_triads = << >>
    /\ I_ij = << >> /\ I_ji = << >> /\ I_ik = << >> /\ I_ki = << >>
    /\ I_jk = << >> /\ I_kj = << >> /\ I_ijk = << >>
    /\ permutation_invariant = FALSE /\ pattern = << >> /\ ipc = "init"

NextCaller == NextOrient \/ NextInv

SpecCaller == InitCaller /\ [][NextCaller]_vars

\* C16: no step of the orientation stage or of the constructor changes an
\* array of the caller: the crater_triads, x_pix and y_pix given to the
\* stage, and the crater_triads and the conics (from which A_i, A_j, A_k are
\* taken) given to the constructor, keep their values.
C16_CallerArraysUnchanged ==
    [][ /\ round' = round => crater_triads' = crater_triads
        /\ x_pix' = x_pix /\ y_pix' = y_pix
        /\ in_triads' = in_triads /\ A_craters' = A_craters ]_vars

\* the stage has exchanged the indices of a triad in its own copy and the
\* constructor has dropped rows and normalized its own conic arrays
C16_Witness ==
    /\ round = 1 /\ opc = "end"
    /\ crater_triads = arg /\ crater_triads_cw # crater_triads
    /\ Len(crater_triads_cw) = Len(crater_triads)
    /\ ipc = "built" /\ normalize_det
    /\ A_i # Vertex(A_craters, in_triads, 1)

(***************************************************************************)
(* projective_invariants.py, match_generator, from_detection and the call  *)
(* of from_detection_conics.  The for loop of line 241 resumes the         *)
(* generator enhanced_pattern_shifting(n_det) until it yields or ends.     *)
(***************************************************************************)
\* n_det = len(x_pix)
InitMatch ==
    /\ n \in 0..MaxN
    /\ dj = NONE /\ dk = NONE /\ ii = NONE /\ i = NONE
    /\ pc = "start" /\ out = << >>
    /\ OrientIdle /\ InvIdle /\ PIIdle /\ CamIdle
    /\ taken = 0 /\ yielded = << >> /\ m_raised = "" /\ mpc = "for"

\* line 241: the loop waits for the next triple
ResumeEnumerator ==
    /\ mpc = "for" /\ Len(out) = taken
    /\ NextEPS

\* what from_detection returns at line 243.  from_detection_conics reads
\* x_pix at line 145, a name bound neither in the function nor in the
\* module: NameError.  Where a caller's module binds the name, the function
\* runs to its last line, which is no return statement: None.
FromDetectionOutcomes == {"NameError", "None"}

\* lines 242-250: the body of the loop for the triple just taken
MatchBody ==
    /\ mpc = "for" /\ Len(out) > taken
    /\ taken' = taken + 1
    /\ \E outcome \in FromDetectionOutcomes :
         IF outcome = "NameError"
           THEN /\ m_raised' = "NameError" /\ mpc' = "raised"
                /\ UNCHANGED yielded
           ELSE /\ yielded' = Append(yielded, <<out[taken + 1], outcome>>)
                /\ UNCHANGED <<m_raised, mpc>>
    /\ UNCHANGED <<epsVars, orientVars, invVars, piVars, camVars>>

\* line 241: enhanced_pattern_shifting is exhausted, the generator returns
MatchEnd ==
    /\ mpc = "for" /\ pc = "done" /\ Len(out) = taken
    /\ mpc' = "done"
    /\ UNCHANGED <<taken, yielded, m_raised, epsVars, orientVars, invVars,
                   piVars, camVars>>

NextMatch == ResumeEnumerator \/ MatchBody \/ MatchEnd

SpecMatch == InitMatch /\ [][NextMatch]_vars

\* C17: when match_generator has ended it has yielded exactly one pair per
\* triple of enhanced_pattern_shifting(n), in the enumerator's order, each
\* the triple's indices with a CoplanarInvariants instance; it has not ended
\* in an exception.
C17_OnePairPerTriple ==
    mpc \in {"done", "raised"} =>
        /\ mpc = "done" /\ pc = "done"
        /\ Len(yielded) = Len(out)
        /\ \A q \in 1..Len(yielded) :
              /\ yielded[q][1] = out[q]
              /\ yielded[q][2] = "CoplanarInvariants"

(***************************************************************************)
(* common/camera.py, Camera.__init__.  A 3x1 float vector is v / sqrt(s)   *)
(* for an integer vector v and an integer s > 0, or holds nan.             *)
(***************************************************************************)
Vec(v) == [nan |-> FALSE, v |-> v, s |-> 1]
NanVec == [nan |-> TRUE, v |-> <<0, 0, 0>>, s |-> 1]

Dot(u, v) == u[1] * v[1] + u[2] * v[2] + u[3] * v[3]

\* a / LA.norm(a): 0 / 0 is nan, and numpy only warns
Normalized(a) ==
    IF a.nan \/ Dot(a.v, a.v) = 0 THEN NanVec
    ELSE [nan |-> FALSE, v |-> a.v, s |-> Dot(a.v, a.v)]

\* -a
NegVec(a) == [a EXCEPT !.v = <<0 - a.v[1], 0 - a.v[2], 0 - a.v[3]>>]

\* np.cross(a, b, axis=0)
Cross(a, b) ==
    IF a.nan \/ b.nan THEN NanVec
    ELSE [nan |-> FALSE,
          v |-> << a.v[2] * b.v[3] - a.v[3] * b.v[2],
                   a.v[3] * b.v[1] - a.v[1] * b.v[3],
                   a.v[1] * b.v[2] - a.v[2] * b.v[1] >>,
          s |-> a.s * b.s]

\* k = np.array([0., 0., 1.])[:, None]
k_up == Vec(<<0, 0, 1>>)

HasNan(cols) == \E c \in 1..3 : cols[c].nan

\* LA.matrix_rank of a matrix without nan, given by its columns: scaling a
\* column by a positive number does not change the rank
MatrixRank(cols) ==
    LET m == [a \in 1..3 |-> [b \in 1..3 |-> cols[b].v[a]]]
        minors == {m[a][c] * m[b][d] - m[a][d] * m[b][c] :
                      a \in 1..3, b \in 1..3, c \in 1..3, d \in 1..3}
        entries == {m[a][b] : a \in 1..3, b \in 1..3}
    IN  IF Det3(m) # 0 THEN 3
        ELSE IF minors # {0} THEN 2
        ELSE IF entries # {0} THEN 1
        ELSE 0

Identity3 == <<Vec(<<1, 0, 0>>), Vec(<<0, 1, 0>>), Vec(<<0, 0, 1>>)>>

Positions == ((0 - MaxR)..MaxR) \X ((0 - MaxR)..MaxR) \X ((0 - MaxR)..MaxR)

\* T = << >> is T=None
InitCamera ==
    /\ EPSIdle /\ OrientIdle /\ InvIdle /\ PIIdle /\ MatchIdle
    /\ r_M \in Positions
    /\ T_arg \in {<< >>, Identity3}
    /\ Z_ax_cam = << >> /\ X_ax_cam = << >> /\ Y_ax_cam = << >>
    /\ self_r = << >> /\ self_T = << >>
    /\ raised = "" /\ camera = "" /\ cpc = "call"

\* lines 159-164
CameraEnter ==
    /\ cpc = "call"
    /\ self_r' = r_M
    /\ cpc' = IF T_arg = << >> THEN "derive" ELSE "given"
    /\ UNCHANGED <<r_M, T_arg, Z_ax_cam, X_ax_cam, Y_ax_cam, self_T,
                   raised, camera, notCam>>

\* lines 177-178
UseGivenAttitude ==
    /\ cpc = "given"
    /\ self_T' = T_arg
    /\ camera' = "Camera"
    /\ cpc' = "returned"
    /\ UNCHANGED <<r_M, T_arg, Z_ax_cam, X_ax_cam, Y_ax_cam, self_r,
                   raised, notCam>>

\* lines 165-172
DeriveAxes ==
    /\ cpc = "derive"
    /\ Z_ax_cam' = NegVec(Normalized(Vec(r_M)))
    /\ X_ax_cam' = Normalized(Cross(k_up, Vec(r_M)))
    /\ Y_ax_cam' = Normalized(Cross(Z_ax_cam', X_ax_cam'))
    /\ cpc' = "rank"
    /\ UNCHANGED <<r_M, T_arg, self_r, self_T, raised, camera, notCam>>

\* lines 174-176 without the test of the rank
CheckRankNever ==
    /\ cpc = "rank"
    /\ self_T' = <<X_ax_cam, Y_ax_cam, Z_ax_cam>>
    /\ camera' = "Camera" /\ cpc' = "returned"
    /\ UNCHANGED <<r_M, T_arg, Z_ax_cam, X_ax_cam, Y_ax_cam, self_r,
                   raised, notCam>>

\* lines 174-176.  On a matrix that holds nan the SVD inside matrix_rank
\* either fails to converge (LinAlgError) or returns nan singular values,
\* none of which exceeds the tolerance: rank 0, and the ValueError.
CheckRank ==
    /\ cpc = "rank"
    /\ self_T' = <<X_ax_cam, Y_ax_cam, Z_ax_cam>>
    /\ IF HasNan(self_T')
         THEN /\ raised' \in {"ValueError", "LinAlgError"}
              /\ cpc' = "raised" /\ UNCHANGED camera
         ELSE IF MatrixRank(self_T') # 3
                THEN /\ raised' = "ValueError"
                     /\ cpc' = "raised" /\ UNCHANGED camera
                ELSE /\ camera' = "Camera" /\ cpc' = "returned"
                     /\ UNCHANGED raised
    /\ UNCHANGED <<r_M, T_arg, Z_ax_cam, X_ax_cam, Y_ax_cam, self_r, notCam>>

NextCamera == CameraEnter \/ UseGivenAttitude \/ DeriveAxes \/ CheckRank

SpecCamera == InitCamera /\ [][NextCamera]_vars

\* the position is on the pole axis: its cross product with k vanishes
OnPoleAxis == r_M[1] = 0 /\ r_M[2] = 0

\* C15: a Camera built without an attitude derives it from the position;
\* for a position on the pole axis the construction ends in an exception
\* and returns no object, for every other position it returns a Camera
\* whose attitude has no nan and rank 3.
C15_PoleAxisRejected ==
    (T_arg = << >> /\ cpc \in {"raised", "returned"}) =>
        IF OnPoleAxis
          THEN cpc = "raised" /\ raised # "" /\ camera = ""
          ELSE /\ cpc = "returned" /\ raised = "" /\ camera = "Camera"
               /\ ~HasNan(self_T) /\ MatrixRank(self_T) = 3
               /\ self_T[3] = NegVec(Normalized(Vec(r_M)))

\* a position on the pole axis, away from the origin, was refused
C15_Witness ==
    /\ T_arg = << >> /\ cpc = "raised"
    /\ OnPoleAxis /\ r_M[3] # 0
    /\ ~Z_ax_cam.nan /\ X_ax_cam.nan /\ Y_ax_cam.nan

(***************************************************************************)
(* PermutationInvariant applied to scalars, as get_pattern applies it to   *)
(* one triad: F to the first triple, then G_tilde to both triples.         *)
(***************************************************************************)
\* the float at k units in the last place from 1.0
Ulp(k) == Rat(Pow2(MantissaBits - 1) + k, Pow2(MantissaBits - 1))

PIValues == {Ulp(k) : k \in (0 - MaxV)..MaxV}

InitPI ==
    /\ EPSIdle /\ OrientIdle /\ InvIdle /\ CamIdle /\ MatchIdle
    /\ ax1 \in PIValues /\ ay1 \in PIValues /\ az1 \in PIValues
    /\ ax2 \in PIValues /\ ay2 \in PIValues /\ az2 \in PIValues
    /\ F_val = << >> /\ G_val = << >> /\ fpc = "args"

\* line 46: np.array((cls.F1(x, y, z), cls.F2(x, y, z), cls.F3(x, y, z)))
ApplyF ==
    /\ fpc = "args"
    /\ F_val' = << F1_fl(ax1, ay1, az1), F2_fl(ax1, ay1, az1),
                   F3_fl(ax1, ay1, az1) >>
    /\ fpc' = "F"
    /\ UNCHANGED <<ax1, ay1, az1, ax2, ay2, az2, G_val, notPI>>

\* lines 82-83: cls.G(...) / np.sqrt(np.sqrt(...))
ApplyGTilde ==
    /\ fpc = "F"
    /\ G_val' = << G_tilde1_fl(ax1, ay1, az1, ax2, ay2, az2),
                   G_tilde2_fl(ax1, ay1, az1, ax2, ay2, az2) >>
    /\ fpc' = "G"
    /\ UNCHANGED <<ax1, ay1, az1, ax2, ay2, az2, F_val, notPI>>

NextPI == ApplyF \/ ApplyGTilde

SpecPI == InitPI /\ [][NextPI]_vars

AllEqual(x, y, z) == x = y /\ y = z

FDenominatorIsZero == FDenominator_fl(ax1, ay1, az1) = RInt(0)

GDenominatorIsZero ==
    GDenominator_fl(ax1, ay1, az1, ax2, ay2, az2) = RInt(0)

=============================================================================
